---- MODULE Spec2Model ----
(***************************************************************************)
(* The API key pool of childappback: APIKeyManager                         *)
(* (src/models/api_key_manager.py) shared by several threads, its JSON     *)
(* state file, and the two callers (QuestionAnswerer, PDFSummarizer) that  *)
(* pull a key, call the external API and report the outcome.               *)
(*                                                                         *)
(* Time is time.time() in whole seconds.  A Python dict is a function      *)
(* whose DOMAIN is the set of its keys.  An argument that may be None is   *)
(* the empty tuple for None and <<v>> for the value v, and is stored in    *)
(* that form.                                                              *)
(***************************************************************************)
EXTENDS Integers, Sequences, FiniteSets, TLC

VARIABLES
    cli,          \* key_manager_cli: its manager, its position, the lines printed
    ctor,         \* how the latest APIKeyManager(...) ended: done, or raised
    api_keys,     \* APIKeyManager.api_keys: the list of credentials
    key_states,   \* APIKeyManager.key_states: fingerprint -> state dict
    store,        \* the content of persistence_file
    lock,         \* APIKeyManager.lock: the thread holding it, or NoThread
    clock,        \* what time.time() returns now
    th,           \* per thread: position, locals, exception or result
    lastWrite,    \* history: outcome of this manager's latest _persist_states
    selTimes,     \* history: per fingerprint, the times of its selections
    apiFailedAt,  \* history: per key, time of a caller's failed API call
    failsSince,   \* history: per key, failure reports since the last success
    events        \* history: operations started, clock steps, failed writes

vars == <<cli, ctor, api_keys, key_states, store, lock, clock, th, lastWrite, selTimes,
          apiFailedAt, failsSince, events>>

----------------------------------------------------------------------------
(* Program constants *)

\* `state.get('last_used', 0) + 6 <= current_time`
ReuseInterval == 6

\* `cooldown_until = now + 6 * 3600`
CooldownHours == 6

SecondsPerHour == 3600

ErrorCooldown == CooldownHours * SecondsPerHour

----------------------------------------------------------------------------
(* Bounds of the model *)

\* time.time() when the first manager is constructed (seconds since 1970)
Epoch == 100000

\* the events of one behaviour: a manager call started, an attempt of a
\* caller run, a step of the clock, a write of the state file that fails,
\* a construction of a manager
MaxEvents == 3

\* the max_retries a caller is run with
RetryChoices == {1, 2}

Threads == {"t1", "t2"}

NoThread == "none"

AllKeys == {"k1", "k2"}

InitialPool == <<"k1", "k2">>

ErrorMessages == {"quota"}

ErrorCodes == {429}

\* the steps of the clock: half a reuse interval, a whole one, a cooldown
ClockSteps == {ReuseInterval \div 2, ReuseInterval, ErrorCooldown}

----------------------------------------------------------------------------
(* Python values *)

None == <<>>

Some(v) == <<v>>

EmptyDict == [x \in {} |-> 0]

\* d.get(k, default)
DictGet(d, k, default) == IF k \in DOMAIN d THEN d[k] ELSE default

\* d[k] = v
DictSet(d, k, v) == [x \in DOMAIN d \cup {k} |-> IF x = k THEN v ELSE d[x]]

\* d.pop(k, None)
DictPop(d, k) == [x \in DOMAIN d \ {k} |-> d[x]]

\* {**d, **e}
DictMerge(d, e) ==
    [x \in DOMAIN d \cup DOMAIN e |-> IF x \in DOMAIN e THEN e[x] ELSE d[x]]

\* {k: v for k, v in d.items() if k in keep}
DictFilter(d, keep) == [x \in DOMAIN d \cap keep |-> d[x]]

SeqToSet(s) == {s[i] : i \in 1..Len(s)}

\* the lists that hold each element of S exactly once: list(set(...)) gives
\* one of them, which one is not specified
Orderings(S) == {l \in [1..Cardinality(S) -> S] : SeqToSet(l) = S}

----------------------------------------------------------------------------
(* The credentials a manager is constructed with *)

\* the api_keys argument: None, or a list
KeyListArgs == {None, Some(<<>>), Some(<<"k1", "k1">>)}

\* the API_KEYS variable: unset, or its text as the pieces between commas
\* ("" is the one piece ""; "k1, k1 ," is the pieces "k1", " k1 ", "")
EnvValues ==
    {None, Some(<<"">>), Some(<<"k1", " k1 ", "">>), Some(<<"k1", "k2">>)}

\* the API_KEYS values that matter to a construction: it is read only when
\* no list is given
EnvFor(api_keys_arg) == IF api_keys_arg = None THEN EnvValues ELSE {None}

\* str.strip()
strip(piece) ==
    CASE piece = " k1 " -> "k1"
      [] piece = " 5 " -> "5"
      [] OTHER -> piece

\* APIKeyManager._load_keys: the lists it may return
_load_keys(env) ==
    LET keys_str == IF env = None THEN <<"">> ELSE env[1]
    IN  IF keys_str = <<"">> THEN {<<>>}
        ELSE LET stripped == [i \in 1..Len(keys_str) |-> strip(keys_str[i])]
                 keys == SelectSeq(stripped, LAMBDA k : k # "")
             IN  Orderings(SeqToSet(keys))

\* line 17: `api_keys if api_keys is not None else self._load_keys()`
ResolveKeys(api_keys_arg, env) ==
    IF api_keys_arg # None THEN {api_keys_arg[1]} ELSE _load_keys(env)

\* a _validate_keys that accepts any list
NoKeys_accepts_all(keys) == FALSE

\* _validate_keys raises: `if not self.api_keys`
NoKeys(keys) == keys = <<>>

\* the credential lists of the managers that get constructed
Pools ==
    {keys \in UNION {ResolveKeys(a, e) : a \in KeyListArgs, e \in EnvValues} :
        ~NoKeys(keys)}

----------------------------------------------------------------------------
(* Fingerprints *)

\* hashlib.sha256(key.encode()).hexdigest(): a one-way, collision-free name
_hash_key(key) ==
    CASE key = "k1" -> "sha256:6b86"
      [] key = "k2" -> "sha256:d473"

AllHashes == {_hash_key(k) : k \in AllKeys}

CurrentHashes(keys) == {_hash_key(keys[i]) : i \in 1..Len(keys)}

----------------------------------------------------------------------------
(* The state file: json.dump / json.load *)

NoFile == <<"missing">>

CorruptFile == <<"corrupt">>

\* a file whose text is JSON but no object: json.load gives a list
ArrayFile == <<"json_array">>

\* a Python value that is no dict, the number n: what json.load gives for a
\* number that stands where the state object of a key is expected
NotADict(n) == [python_int |-> n]

\* the value is a dict
IsDict(v) == "python_int" \notin DOMAIN v

FieldOrder == <<"last_used", "cooldown_until", "error_message", "error_code">>

HashOrder == <<"sha256:6b86", "sha256:d473">>

ErrorFields == {"error_message", "error_code"}

\* a JSON scalar: null, a string in quotes, or a number
JsonScalar(field, v) ==
    IF field \in ErrorFields
    THEN IF v = None THEN <<"null">>
         ELSE IF field = "error_message" THEN <<"str", v[1]>>
         ELSE <<"num", v[1]>>
    ELSE <<"num", v>>

\* the Python value json.load gives for a scalar
JsonParseScalar(field, token) ==
    IF field \in ErrorFields
    THEN IF token = <<"null">> THEN None ELSE Some(token[2])
    ELSE token[2]

\* one state dict as the member list of a JSON object
JsonObject(state) ==
    LET present == SelectSeq(FieldOrder, LAMBDA f : f \in DOMAIN state)
    IN  [i \in 1..Len(present) |->
            <<present[i], JsonScalar(present[i], state[present[i]])>>]

\* json.dump(self.key_states, f): the text of the whole mapping, each value
\* an object, or a number
JsonDump(states) ==
    LET present == SelectSeq(HashOrder, LAMBDA h : h \in DOMAIN states)
    IN  [i \in 1..Len(present) |->
            LET v == states[present[i]]
            IN  <<present[i], IF IsDict(v) THEN <<"object", JsonObject(v)>>
                              ELSE <<"num", v.python_int>>>>]

\* json.load of an object's member list
JsonParseObject(members) ==
    [f \in {members[i][1] : i \in 1..Len(members)} |->
        LET i == CHOOSE j \in 1..Len(members) : members[j][1] = f
        IN  JsonParseScalar(f, members[i][2])]

\* json.load(f) of the text of a JSON object, each value an object or a
\* number
JsonLoad(text) ==
    [h \in {text[i][1] : i \in 1..Len(text)} |->
        LET i == CHOOSE j \in 1..Len(text) : text[j][1] = h
            token == text[i][2]
        IN  IF token[1] = "object" THEN JsonParseObject(token[2])
            ELSE NotADict(token[2])]

\* a file that is JSON, written by something else than this manager: the
\* fingerprint of `key` with the number 5 in the place of its state object
NumberFile(key) == <<"json", << <<_hash_key(key), <<"num", 5>>>> >> >>

\* a load that keeps the entries of credentials that are no longer there
_load_persisted_states_unfiltered(file, keys) ==
    IF file = NoFile THEN EmptyDict
    ELSE IF file = CorruptFile \/ file = ArrayFile THEN EmptyDict
    ELSE JsonLoad(file[2])

\* APIKeyManager._load_persisted_states: {} when there is no file (lines
\* 44-45), {} when json.load raises (line 49) or when what it gives has no
\* .items() (line 53), both caught at line 54; else whatever the JSON object
\* holds for the current fingerprints, state objects or not
_load_persisted_states(file, keys) ==
    IF file = NoFile THEN EmptyDict
    ELSE IF file = CorruptFile \/ file = ArrayFile THEN EmptyDict
    ELSE DictFilter(JsonLoad(file[2]), CurrentHashes(keys))

WriteOutcomes == {"ok", "open_failed", "dump_failed"}

\* a _persist_states that never writes
_persist_states_no_write(file, states, outcome) == file

\* APIKeyManager._persist_states: the file after the attempt
_persist_states(file, states, outcome) ==
    CASE outcome = "ok" -> <<"json", JsonDump(states)>>
      [] outcome = "open_failed" -> file
      [] outcome = "dump_failed" -> CorruptFile

----------------------------------------------------------------------------
(* Availability *)

\* a selection test that looks at last_used only and not at cooldown_until
_is_key_available_last_used_only(states, key, current_time) ==
    LET state == DictGet(states, _hash_key(key), EmptyDict)
    IN  DictGet(state, "last_used", 0) + ReuseInterval <= current_time

\* a selection test that looks at cooldown_until only and not at last_used
_is_key_available_cooldown_only(states, key, current_time) ==
    LET state == DictGet(states, _hash_key(key), EmptyDict)
    IN  DictGet(state, "cooldown_until", 0) <= current_time

\* APIKeyManager._is_key_available
_is_key_available(states, key, current_time) ==
    LET state == DictGet(states, _hash_key(key), EmptyDict)
        last_used_cooldown ==
            DictGet(state, "last_used", 0) + ReuseInterval <= current_time
        error_cooldown == DictGet(state, "cooldown_until", 0) <= current_time
    IN  last_used_cooldown /\ error_cooldown

\* _is_key_available raises AttributeError at line 72 for some key of the
\* list: the state it got for the key is no dict and has no .get
AvailabilityRaises(states, keys) ==
    \E i \in 1..Len(keys) :
        ~IsDict(DictGet(states, _hash_key(keys[i]), EmptyDict))

\* [k for k in self.api_keys if self._is_key_available(k, now)]
Available(states, keys, now) ==
    SelectSeq(keys, LAMBDA k : _is_key_available(states, k, now))

\* self.key_states.get(hashed_key, {}) on the mapping `states`
StatusIn(states, key) == DictGet(states, _hash_key(key), EmptyDict)

\* APIKeyManager.get_key_status
get_key_status(key) == StatusIn(key_states, key)

----------------------------------------------------------------------------
(* Threads *)

NoRet == <<"-">>

NoTime == 0 - 1

\* a thread that is in no call
IdleThread ==
    [pc |-> "idle", frame |-> "direct", key |-> None, success |-> FALSE,
     attempt |-> 0, max_retries |-> 0, reports |-> 0, now |-> NoTime,
     wake |-> NoTime, ret |-> NoRet]

\* 2 ** n
RECURSIVE Pow2(_)
Pow2(n) == IF n = 0 THEN 1 ELSE 2 * Pow2(n - 1)

Optional(S) == {None} \cup {Some(v) : v \in S}

\* the thread record when a call on the manager raises `exception`: a direct
\* call ends; in a caller the exception leaves the processing loop
Raise(rec, exception) ==
    IF rec.frame = "direct"
    THEN [IdleThread EXCEPT !.ret = <<"raise", exception>>]
    ELSE [rec EXCEPT !.pc = "c_exit", !.ret = <<"raise", exception>>]

\* a `with self.lock` that excludes nobody
LockFree_no_exclusion == TRUE

\* `with self.lock` can be entered
LockFree == lock = NoThread

\* a `with self.lock` block that leaves the lock with the thread
LockAfterWith_still_held(t) == t

\* the lock after thread t leaves its `with self.lock` block, by return or
\* by exception
LockAfterWith(t) == NoThread

Constructed == <<"done">>

\* the thread may start one more operation on the manager
CanStart(t) == ctor = Constructed /\ th[t].pc = "idle" /\ events < MaxEvents

\* the events after thread t takes the first step of a manager call: one
\* more for a direct call, none for a call within a caller's attempt
Started(t) == IF th[t].pc = "idle" THEN events + 1 ELSE events

----------------------------------------------------------------------------
(* key_manager_cli: the console, and the manager beside it *)
(* Line 4, `from api_key_manager import APIKeyManager`, names the module  *)
(* api_key_manager of the console's own directory.  The repository holds  *)
(* no such file; of that manager the console uses api_keys, _save_keys()  *)
(* and get_key_status(key) with the entries 'failures', 'blocked_until'   *)
(* and 'last_failed'.  These follow the specification of the manager's    *)
(* administrative operations; the console itself follows its source.      *)

\* what getpass may return at the prompt of add_key
KeyInputs == {"", " k1 ", "k2", "k3"}

\* what input() may return at the prompt of remove_key
ChoiceInputs == {"x", "0", "1", "2", "4"}

\* int(text): the number, or None where int raises ValueError
int(text) ==
    CASE text = "0" -> Some(0)
      [] text = "1" -> Some(1)
      [] text = "2" -> Some(2)
      [] text = "4" -> Some(4)
      [] OTHER -> None

\* list.pop(index): the list without the element at the 0-based index
ListPop(list, index) ==
    SubSeq(list, 1, index) \o SubSeq(list, index + 2, Len(list))

\* a list.insert that appends
ListInsert_at_end(list, index, x) == Append(list, x)

\* list.insert(index, x): x placed before the element at the 0-based index
ListInsert(list, index, x) ==
    SubSeq(list, 1, index) \o <<x>> \o SubSeq(list, index + 1, Len(list))

\* the outcomes of the manager's _save_keys
SaveOutcomes == {"ok", "failed"}

\* a _save_keys that stores the credential list and keeps every key state
_save_keys_keeps_states(manager, outcome) ==
    IF outcome = "ok"
    THEN [manager EXCEPT !.saved_keys = manager.api_keys]
    ELSE manager

\* the manager after its _save_keys(): the credential list is stored, and the
\* state of a credential no longer in the list is discarded in memory and in
\* the stored states; a failed save changes nothing.  The call returns True
\* for outcome "ok" and False for "failed"
_save_keys(manager, outcome) ==
    IF outcome = "ok"
    THEN LET kept == DictFilter(manager.key_states,
                                SeqToSet(manager.api_keys))
         IN  [manager EXCEPT !.key_states = kept,
                             !.saved_keys = manager.api_keys,
                             !.saved_states = kept]
    ELSE manager

\* manager.get_key_status(key) of that manager: 'failures', 'blocked_until'
\* and 'last_failed' are always there, 0 for a key that never failed
CliStatus(manager, key) ==
    DictGet(manager.key_states, key,
            [failures |-> 0, blocked_until |-> 0, last_failed |-> 0])

\* the state of a key that failed once and is blocked, or blocked no longer
BlockedStates ==
    {[failures |-> 1, blocked_until |-> until, last_failed |-> Epoch - 1] :
        until \in {Epoch, Epoch + 1}}

\* no console is running
NoConsole ==
    [pc |-> "none", api_keys |-> <<>>, key_states |-> EmptyDict,
     saved_keys |-> <<>>, saved_states |-> EmptyDict, printed |-> <<>>]

\* print(line): one more line on the console
reply(manager, line) == [manager EXCEPT !.printed = Append(@, line)]

\* show_menu(), lines 8-13: the lines printed before the prompt
show_menu ==
    << <<"API Key Management Console">>, <<"1. Add new API Key">>,
       <<"2. List stored API Keys">>, <<"3. Remove API Key">>,
       <<"4. View Key Statuses">>, <<"5. Exit">> >>

\* add_key(manager), lines 16-31
add_key(manager, typed, outcome) ==
    LET key == strip(typed)
    IN  IF key = ""
        THEN reply(manager, <<"Error: Key cannot be empty!">>)
        ELSE IF key \in SeqToSet(manager.api_keys)
        THEN reply(manager, <<"Error: Key already exists!">>)
        ELSE LET appended ==
                    [manager EXCEPT !.api_keys = Append(manager.api_keys, key)]
                 after == _save_keys(appended, outcome)
             IN  IF outcome = "ok"
                 THEN reply(after, <<"Key added successfully!", key>>)
                 ELSE [reply(after, <<"Failed to save key to storage!">>)
                          EXCEPT !.api_keys =
                            SubSeq(after.api_keys, 1, Len(after.api_keys) - 1)]

\* list_keys(manager), lines 33-42
list_keys(manager, now) ==
    IF manager.api_keys = <<>>
    THEN reply(manager, <<"No API keys stored">>)
    ELSE [manager EXCEPT !.printed =
            @ \o << <<"Stored API Keys:">> >> \o
            [idx \in 1..Len(manager.api_keys) |->
                LET key == manager.api_keys[idx]
                    status == CliStatus(manager, key)
                    state == IF status["blocked_until"] < now
                             THEN "Active" ELSE "Blocked"
                IN  <<"listed", idx, key, state>>]]

\* remove_key(manager) from its prompt on, lines 49-61
remove_key(manager, typed, outcome) ==
    LET choice == int(typed)
    IN  IF choice = None
        THEN reply(manager, <<"Please enter a valid number">>)
        ELSE IF ~(1 <= choice[1] /\ choice[1] <= Len(manager.api_keys))
        THEN reply(manager, <<"Invalid selection">>)
        ELSE LET removed_key == manager.api_keys[choice[1]]
                 popped == [manager EXCEPT !.api_keys =
                                ListPop(manager.api_keys, choice[1] - 1)]
                 after == _save_keys(popped, outcome)
             IN  IF outcome = "ok"
                 THEN reply(after, <<"Removed key", removed_key>>)
                 ELSE [reply(after, <<"Failed to save changes!">>)
                          EXCEPT !.api_keys =
                            ListInsert(after.api_keys, choice[1] - 1,
                                       removed_key)]

\* the lines view_statuses prints for the keys from the i-th on, lines
\* 65-71; time.ctime gives the date as text
RECURSIVE StatusesFrom(_, _)
StatusesFrom(manager, i) ==
    IF i > Len(manager.api_keys) THEN <<>>
    ELSE LET key == manager.api_keys[i]
             status == CliStatus(manager, key)
         IN  << <<"Key", key>>,
                <<"Failures", status["failures"]>>,
                <<"Blocked until", <<"ctime", status["blocked_until"]>>>>,
                <<"Last failed", IF status["last_failed"] # 0
                                 THEN <<"ctime", status["last_failed"]>>
                                 ELSE <<"Never">>>>,
                <<"">> >>
             \o StatusesFrom(manager, i + 1)

\* view_statuses(manager), lines 63-71
view_statuses(manager) ==
    [manager EXCEPT !.printed =
        @ \o << <<"Key Status Overview:">> >> \o StatusesFrom(manager, 1)]

\* main() is at the prompt of show_menu, lines 76-77
MenuLoop ==
    /\ cli.pc = "menu"
    /\ events < MaxEvents

\* the text typed at the prompt of show_menu, line 14, is `choice` once
\* stripped
Chosen(choice) ==
    \E typed \in {"1", "2", "3", "4", " 5 ", "6"} : strip(typed) = choice

\* the console when the choice has been read: the menu is what this turn of
\* the loop has printed so far
Menu == [cli EXCEPT !.printed = show_menu]

\* the manager of the module above, its threads and its file stay as they are
ManagerUnchanged ==
    UNCHANGED <<ctor, api_keys, key_states, store, lock, clock, th, lastWrite,
                selTimes, apiFailedAt, failsSince>>

\* choice '1', lines 79-80
AddKey(typed, outcome) ==
    /\ MenuLoop
    /\ Chosen("1")
    /\ cli' = add_key(Menu, typed, outcome)
    /\ events' = events + 1
    /\ ManagerUnchanged

\* choice '2', lines 81-82
ListKeys ==
    /\ MenuLoop
    /\ Chosen("2")
    /\ cli' = list_keys(Menu, clock)
    /\ events' = events + 1
    /\ ManagerUnchanged

\* choice '3', lines 83-84 and 45-50: remove_key lists the keys, returns if
\* there are none, and else waits at its prompt
RemoveKey ==
    /\ MenuLoop
    /\ Chosen("3")
    /\ LET listed == list_keys(Menu, clock)
       IN  cli' = IF listed.api_keys = <<>> THEN listed
                  ELSE [listed EXCEPT !.pc = "remove_input"]
    /\ events' = events + 1
    /\ ManagerUnchanged

\* lines 50-61: the prompt of remove_key is answered, whatever time has
\* passed since the listing
RemoveChosen(typed, outcome) ==
    /\ cli.pc = "remove_input"
    /\ cli' = [remove_key(cli, typed, outcome) EXCEPT !.pc = "menu"]
    /\ UNCHANGED events
    /\ ManagerUnchanged

\* choice '4', lines 85-86
ViewStatuses ==
    /\ MenuLoop
    /\ Chosen("4")
    /\ cli' = view_statuses(Menu)
    /\ events' = events + 1
    /\ ManagerUnchanged

\* choice '5', lines 87-89: the loop ends and main() returns
Exit ==
    /\ MenuLoop
    /\ Chosen("5")
    /\ cli' = [reply(Menu, <<"Exiting...">>) EXCEPT !.pc = "exited"]
    /\ events' = events + 1
    /\ ManagerUnchanged

\* any other choice, lines 90-91
InvalidChoice ==
    /\ MenuLoop
    /\ \E choice \in {"6"} \ {"1", "2", "3", "4", "5"} : Chosen(choice)
    /\ cli' = reply(Menu, <<"Invalid choice, please try again">>)
    /\ events' = events + 1
    /\ ManagerUnchanged

----------------------------------------------------------------------------
(* Construction *)

Init ==
    /\ cli = NoConsole
    /\ ctor = Constructed
    /\ api_keys = InitialPool
    /\ store = NoFile
    /\ key_states = _load_persisted_states(NoFile, InitialPool)
    /\ lock = NoThread
    /\ clock = Epoch
    /\ th = [t \in Threads |-> IdleThread]
    /\ lastWrite = "none"
    /\ selTimes = [h \in AllHashes |-> <<>>]
    /\ apiFailedAt = [k \in AllKeys |-> NoTime]
    /\ failsSince = [k \in AllKeys |-> 0]
    /\ events = 0

\* _persist_states as a step: the write succeeds, or it fails
Persist ==
    \E outcome \in WriteOutcomes :
        /\ outcome # "ok" => events < MaxEvents
        /\ store' = _persist_states(store, key_states', outcome)
        /\ lastWrite' = IF outcome = "ok" THEN "ok" ELSE "failed"
        /\ events' = IF outcome = "ok" THEN events ELSE events + 1

----------------------------------------------------------------------------
(* APIKeyManager.get_available_key *)

\* the thread is at a call of get_available_key: a direct call, or the call
\* at the head of an attempt of a caller's processing loop
AtGetAvailableKey(t) ==
    \/ CanStart(t)
    \/ th[t].pc = "c_loop" /\ th[t].attempt <= th[t].max_retries

\* key_states after `self.key_states[hashed_key] = {**old, 'last_used': now}`
StampLastUsed(states, key, now) ==
    LET hashed_key == _hash_key(key)
    IN  DictSet(states, hashed_key,
                DictMerge(DictGet(states, hashed_key, EmptyDict),
                          [last_used |-> now]))

\* a choice that always takes the first element
random_choice_first(list) == {list[1]}

\* random.choice(list): what it may return, any element of the list
random_choice(list) == SeqToSet(list)

\* lines 81-87: take the lock, read the time, filter, choose at random
ChooseKey(t) ==
    /\ AtGetAvailableKey(t)
    /\ LockFree
    /\ ~AvailabilityRaises(key_states, api_keys)
    /\ LET now == clock
           available == Available(key_states, api_keys, now)
       IN  /\ available # <<>>
           /\ \E chosen_key \in random_choice(available) :
                th' = [th EXCEPT ![t].pc = "gak_stamp",
                                 ![t].key = Some(chosen_key),
                                 ![t].now = now,
                                 ![t].reports = 0,
                                 ![t].ret = NoRet]
    /\ lock' = t
    /\ events' = Started(t)
    /\ UNCHANGED <<cli, ctor, api_keys, key_states, store, clock, lastWrite,
                   selTimes, apiFailedAt, failsSince>>

\* lines 81-83, 97-99: nothing is available, the call returns None; a caller
\* then begins time.sleep(2 ** attempt), which ends 2 ** attempt seconds
\* after this moment whatever the other threads do meanwhile
NoKeyAvailable(t) ==
    /\ AtGetAvailableKey(t)
    /\ LockFree
    /\ ~AvailabilityRaises(key_states, api_keys)
    /\ Available(key_states, api_keys, clock) = <<>>
    /\ th' = IF th[t].frame = "direct"
             THEN [th EXCEPT ![t] = IdleThread]
             ELSE [th EXCEPT ![t].pc = "c_sleep", ![t].key = None,
                             ![t].reports = 0,
                             ![t].wake = clock + Pow2(th[t].attempt)]
    /\ events' = Started(t)
    /\ UNCHANGED <<cli, ctor, api_keys, key_states, store, lock, clock,
                   lastWrite, selTimes, apiFailedAt, failsSince>>

\* lines 81-83: the filter raises AttributeError inside _is_key_available;
\* the with block releases the lock and the exception leaves
\* get_available_key, in a caller the processing loop too
FilterRaises(t) ==
    /\ AtGetAvailableKey(t)
    /\ LockFree
    /\ AvailabilityRaises(key_states, api_keys)
    /\ lock' = LockAfterWith(t)
    /\ th' = [th EXCEPT ![t] = Raise(th[t], "AttributeError")]
    /\ events' = Started(t)
    /\ UNCHANGED <<cli, ctor, api_keys, key_states, store, clock, lastWrite,
                   selTimes, apiFailedAt, failsSince>>

\* lines 87-93: last_used of the chosen key is set to the `now` of line 82 in
\* self.key_states, the lock still held and the file not yet written
StampChosen(t) ==
    /\ th[t].pc = "gak_stamp"
    /\ LET chosen_key == th[t].key[1]
           now == th[t].now
       IN  /\ key_states' = StampLastUsed(key_states, chosen_key, now)
           /\ selTimes' = [selTimes EXCEPT ![_hash_key(chosen_key)] =
                               Append(@, now)]
    /\ th' = [th EXCEPT ![t].pc = "gak_persist"]
    /\ UNCHANGED <<cli, ctor, api_keys, store, lock, clock, lastWrite,
                   apiFailedAt, failsSince, events>>

\* lines 94-96: write the file, return the key, release the lock
PersistAndReturn(t) ==
    /\ th[t].pc = "gak_persist"
    /\ key_states' = key_states
    /\ selTimes' = selTimes
    /\ Persist
    /\ lock' = LockAfterWith(t)
    /\ th' = IF th[t].frame = "direct"
             THEN [th EXCEPT ![t] = IdleThread]
             ELSE [th EXCEPT ![t].pc = "c_api", ![t].now = NoTime]
    /\ UNCHANGED <<cli, ctor, api_keys, clock, apiFailedAt, failsSince>>

----------------------------------------------------------------------------
(* APIKeyManager.update_key_status *)

\* an argument test that objects only when both details are missing
ArgumentError_both_missing(success, error_message, error_code) ==
    ~success /\ (error_message = None /\ error_code = None)

\* `if not success and (error_message is None or error_code is None)`
ArgumentError(success, error_message, error_code) ==
    ~success /\ (error_message = None \/ error_code = None)

\* key_states after one `self.key_states[hashed_key].pop(field, None)`
PopField(states, key, field) ==
    LET hashed_key == _hash_key(key)
    IN  IF hashed_key \in DOMAIN states
        THEN DictSet(states, hashed_key, DictPop(states[hashed_key], field))
        ELSE states

\* a failure report that keeps the fields the key already has: {**new, **old}
SetCooldown_keeps_old(states, key, now, error_message, error_code) ==
    LET hashed_key == _hash_key(key)
        cooldown_until == now + ErrorCooldown
    IN  DictSet(states, hashed_key,
                DictMerge([cooldown_until |-> cooldown_until,
                           error_message |-> error_message,
                           error_code |-> error_code],
                          DictGet(states, hashed_key, EmptyDict)))

\* a failure report that replaces the state of the key: no {**old}
SetCooldown_replaces_state(states, key, now, error_message, error_code) ==
    DictSet(states, _hash_key(key),
            [cooldown_until |-> now + ErrorCooldown,
             error_message |-> error_message,
             error_code |-> error_code])

\* key_states after lines 119-125: the 6-hour cooldown and the error details
SetCooldown(states, key, now, error_message, error_code) ==
    LET hashed_key == _hash_key(key)
        cooldown_until == now + ErrorCooldown
    IN  DictSet(states, hashed_key,
                DictMerge(DictGet(states, hashed_key, EmptyDict),
                          [cooldown_until |-> cooldown_until,
                           error_message |-> error_message,
                           error_code |-> error_code]))

\* update_key_status(key, success=False, error_message, error_code) from the
\* position `from`: lines 103-104 raise, or lines 106-125 take the lock, read
\* the time and set the cooldown
FailureReport(t, from, key, error_message, error_code) ==
    IF ArgumentError(FALSE, error_message, error_code)
    THEN /\ th' = [th EXCEPT ![t] = Raise(from, "ValueError")]
         /\ UNCHANGED <<key_states, lock>>
    ELSE /\ LockFree
         /\ IsDict(StatusIn(key_states, key))
         /\ lock' = t
         /\ key_states' =
                SetCooldown(key_states, key, clock, error_message, error_code)
         /\ th' = [th EXCEPT ![t] = [from EXCEPT !.pc = "uks_persist",
                                                 !.key = Some(key),
                                                 !.now = clock,
                                                 !.success = FALSE]]

\* a direct call update_key_status(key, False, error_message, error_code)
ReportFailure(t, key, error_message, error_code) ==
    /\ CanStart(t)
    /\ FailureReport(t, th[t], key, error_message, error_code)
    /\ events' = events + 1
    /\ UNCHANGED <<cli, ctor, api_keys, store, clock, lastWrite, selTimes,
                   apiFailedAt,
                   failsSince>>

\* the thread is at a call update_key_status(key, success=True): a direct
\* call, or the call after generate_content in a caller
AtReportSuccess(t, key) ==
    \/ CanStart(t)
    \/ th[t].pc = "c_api" /\ th[t].key = Some(key)

\* lines 106-113, success, the key has a state: take the lock, pop cooldown_until
ClearCooldown(t, key) ==
    /\ AtReportSuccess(t, key)
    /\ LockFree
    /\ _hash_key(key) \in DOMAIN key_states
    /\ IsDict(StatusIn(key_states, key))
    /\ lock' = t
    /\ key_states' = PopField(key_states, key, "cooldown_until")
    /\ th' = [th EXCEPT ![t].pc = "uks_pop_message", ![t].key = Some(key),
                        ![t].success = TRUE, ![t].ret = NoRet]
    /\ events' = Started(t)
    /\ UNCHANGED <<cli, ctor, api_keys, store, clock, lastWrite, selTimes,
                   apiFailedAt,
                   failsSince>>

\* lines 106-113, success, the state of the key is no dict: .pop raises
\* AttributeError, the with block releases the lock, nothing is written
PopRaises(t, key) ==
    /\ AtReportSuccess(t, key)
    /\ LockFree
    /\ _hash_key(key) \in DOMAIN key_states
    /\ ~IsDict(StatusIn(key_states, key))
    /\ lock' = LockAfterWith(t)
    /\ th' = [th EXCEPT ![t] = Raise(th[t], "AttributeError")]
    /\ events' = Started(t)
    /\ UNCHANGED <<cli, ctor, api_keys, key_states, store, clock, lastWrite,
                   selTimes, apiFailedAt, failsSince>>

\* lines 106-120, failure, the state of the key is no dict: {**state, ...}
\* raises TypeError, the with block releases the lock, nothing is written
MergeRaises(t, key, error_message, error_code) ==
    /\ CanStart(t)
    /\ LockFree
    /\ ~ArgumentError(FALSE, error_message, error_code)
    /\ ~IsDict(StatusIn(key_states, key))
    /\ lock' = LockAfterWith(t)
    /\ th' = [th EXCEPT ![t] = Raise(th[t], "TypeError")]
    /\ events' = events + 1
    /\ UNCHANGED <<cli, ctor, api_keys, key_states, store, clock, lastWrite,
                   selTimes, apiFailedAt, failsSince>>

\* line 114
ClearMessage(t) ==
    /\ th[t].pc = "uks_pop_message"
    /\ key_states' = PopField(key_states, th[t].key[1], "error_message")
    /\ th' = [th EXCEPT ![t].pc = "uks_pop_code"]
    /\ UNCHANGED <<cli, ctor, api_keys, store, lock, clock, lastWrite, selTimes,
                   apiFailedAt, failsSince, events>>

\* line 115
ClearCode(t) ==
    /\ th[t].pc = "uks_pop_code"
    /\ key_states' = PopField(key_states, th[t].key[1], "error_code")
    /\ th' = [th EXCEPT ![t].pc = "uks_persist"]
    /\ UNCHANGED <<cli, ctor, api_keys, store, lock, clock, lastWrite, selTimes,
                   apiFailedAt, failsSince, events>>

\* lines 106-112, success, the key has no state: nothing to clear
ClearNothing(t, key) ==
    /\ AtReportSuccess(t, key)
    /\ LockFree
    /\ _hash_key(key) \notin DOMAIN key_states
    /\ lock' = t
    /\ th' = [th EXCEPT ![t].pc = "uks_persist", ![t].key = Some(key),
                        ![t].success = TRUE, ![t].ret = NoRet]
    /\ events' = Started(t)
    /\ UNCHANGED <<cli, ctor, api_keys, key_states, store, clock, lastWrite,
                   selTimes, apiFailedAt, failsSince>>

\* _handle_error(api_key, message, attempt, max_attempts) of both callers:
\* `self.api_key_manager.update_key_status(api_key, success=False)`
_handle_error(t, from) == FailureReport(t, from, from.key[1], None, None)

\* the except clauses of the processing loop.  In _process_pdf the clause for
\* ResourceExhausted binds no `e` and formats str(e): it raises before it
\* reaches _handle_error
ExceptClause(t, from, kind, exc) ==
    IF kind = "pdf" /\ exc = "ResourceExhausted"
    THEN /\ th' = [th EXCEPT ![t] =
                      [from EXCEPT !.pc = "c_exit",
                                   !.ret = <<"raise", "UnboundLocalError">>]]
         /\ UNCHANGED <<key_states, lock>>
    ELSE _handle_error(t, from)

\* line 132 and the end of the with block of a failure report: write the
\* file, release the lock, return; in a caller, sleep(1) and the next attempt
FinishFailure(t) ==
    /\ th[t].pc = "uks_persist"
    /\ ~th[t].success
    /\ UNCHANGED key_states
    /\ Persist
    /\ lock' = LockAfterWith(t)
    /\ th' = IF th[t].frame = "direct"
             THEN [th EXCEPT ![t] = IdleThread]
             ELSE [th EXCEPT ![t].pc = "c_loop",
                             ![t].now = NoTime,
                             ![t].attempt = th[t].attempt + 1,
                             ![t].reports = th[t].reports + 1]
    /\ failsSince' = [failsSince EXCEPT ![th[t].key[1]] = @ + 1]
    /\ UNCHANGED <<cli, ctor, api_keys, clock, selTimes, apiFailedAt>>

\* line 132 and the end of the with block of a success report: write the
\* file, release the lock, return
FinishSuccess(t) ==
    /\ th[t].pc = "uks_persist"
    /\ th[t].success
    /\ UNCHANGED key_states
    /\ Persist
    /\ lock' = LockAfterWith(t)
    /\ th' = IF th[t].frame = "direct"
             THEN [th EXCEPT ![t] = IdleThread]
             ELSE [th EXCEPT ![t].pc = "c_text",
                             ![t].reports = th[t].reports + 1]
    /\ failsSince' = [failsSince EXCEPT ![th[t].key[1]] = 0]
    /\ apiFailedAt' = [apiFailedAt EXCEPT ![th[t].key[1]] = NoTime]
    /\ UNCHANGED <<cli, ctor, api_keys, clock, selTimes>>

----------------------------------------------------------------------------
(* The callers: QuestionAnswerer._process_question, PDFSummarizer._process_pdf *)
(* A thread runs either; the two differ in two steps only, and which of    *)
(* the two a run is shows where it takes one of them.                      *)

Kinds == {"qa", "pdf"}

ApiErrors == {"ResourceExhausted", "GoogleAPIError", "Exception"}

\* answer(question, max_retries) / summarize(pdf_path, max_retries), the input
\* valid: the processing loop starts with attempt 1
StartCaller(t, max_retries) ==
    /\ ctor = Constructed
    /\ th[t].pc = "idle"
    /\ events + max_retries <= MaxEvents
    /\ th' = [th EXCEPT ![t] = [IdleThread EXCEPT !.pc = "c_loop",
                                                  !.frame = "caller",
                                                  !.attempt = 1,
                                                  !.max_retries = max_retries]]
    /\ events' = events + max_retries
    /\ UNCHANGED <<cli, ctor, api_keys, key_states, store, lock, clock,
                   lastWrite, selTimes, apiFailedAt, failsSince>>

\* `for attempt in range(1, max_retries + 1)` is exhausted: return None
LoopExit(t) ==
    /\ th[t].pc = "c_loop"
    /\ th[t].attempt > th[t].max_retries
    /\ th' = [th EXCEPT ![t].pc = "c_exit", ![t].ret = <<"result", None>>]
    /\ UNCHANGED <<cli, ctor, api_keys, key_states, store, lock, clock,
                   lastWrite, selTimes, apiFailedAt, failsSince, events>>

\* a `continue` that starts the same attempt again
WakeUp_same_attempt(t) ==
    /\ th[t].pc = "c_sleep"
    /\ clock' = IF clock < th[t].wake THEN th[t].wake ELSE clock
    /\ th' = [th EXCEPT ![t].pc = "c_loop", ![t].wake = NoTime]
    /\ UNCHANGED <<cli, ctor, api_keys, key_states, store, lock, lastWrite,
                   selTimes, apiFailedAt, failsSince, events>>

\* `if not api_key`: time.sleep(2 ** attempt) ends, then `continue`; the
\* sleeps of two threads run side by side, each ends no earlier than
\* 2 ** attempt seconds after it began, whoever holds the lock then
WakeUp(t) ==
    /\ th[t].pc = "c_sleep"
    /\ clock' = IF clock < th[t].wake THEN th[t].wake ELSE clock
    /\ th' = [th EXCEPT ![t].pc = "c_loop", ![t].attempt = th[t].attempt + 1,
                        ![t].wake = NoTime]
    /\ UNCHANGED <<cli, ctor, api_keys, key_states, store, lock, lastWrite,
                   selTimes, apiFailedAt, failsSince, events>>

\* _process_pdf only: _extract_text gives nothing, `return None`
ExtractFails(t) ==
    /\ th[t].pc = "c_api"
    /\ th' = [th EXCEPT ![t].pc = "c_exit", ![t].ret = <<"result", None>>]
    /\ UNCHANGED <<cli, ctor, api_keys, key_states, store, lock, clock,
                   lastWrite, selTimes, apiFailedAt, failsSince, events>>

\* _get_model returns None: `continue`
ModelFails(t) ==
    /\ th[t].pc = "c_api"
    /\ th' = [th EXCEPT ![t].pc = "c_loop", ![t].attempt = th[t].attempt + 1]
    /\ UNCHANGED <<cli, ctor, api_keys, key_states, store, lock, clock,
                   lastWrite, selTimes, apiFailedAt, failsSince, events>>

\* generate_content raises: the matching except clause runs
GenerateRaises(t, kind, exc) ==
    /\ th[t].pc = "c_api"
    /\ ExceptClause(t, th[t], kind, exc)
    /\ apiFailedAt' = [apiFailedAt EXCEPT ![th[t].key[1]] = clock]
    /\ UNCHANGED <<cli, ctor, api_keys, store, clock, lastWrite, selTimes,
                   failsSince,
                   events>>

\* after the success report: `return response.text`, unless reading it
\* raises, which the `except Exception` clause handles
ReadText(t, text_ok) ==
    /\ th[t].pc = "c_text"
    /\ IF text_ok
       THEN /\ th' = [th EXCEPT ![t].pc = "c_exit",
                                ![t].ret = <<"result", Some("text")>>]
            /\ UNCHANGED <<key_states, lock>>
       ELSE ExceptClause(t, th[t], "qa", "Exception")
    /\ UNCHANGED <<cli, ctor, api_keys, store, clock, lastWrite, selTimes,
                   apiFailedAt,
                   failsSince, events>>

\* answer / summarize returns: the result, or None for an exception it caught
CallerReturn(t) ==
    /\ th[t].pc = "c_exit"
    /\ th' = [th EXCEPT ![t] = IdleThread]
    /\ UNCHANGED <<cli, ctor, api_keys, key_states, store, lock, clock,
                   lastWrite, selTimes, apiFailedAt, failsSince, events>>

----------------------------------------------------------------------------
(* The clock, and a restart of the process *)

\* time.time() moves on by d seconds; a call that holds the lock goes on
\* with the time it read on entry
Advance(d) ==
    /\ events < MaxEvents
    /\ clock' = clock + d
    /\ events' = events + 1
    /\ UNCHANGED <<cli, ctor, api_keys, key_states, store, lock, th,
                   lastWrite, selTimes,
                   apiFailedAt, failsSince>>

\* APIKeyManager.__init__ in a new process, over the same persistence file,
\* with credentials `pool`: the old process may have stopped anywhere
Restart(pool) ==
    /\ ctor' = Constructed
    /\ api_keys' = pool
    /\ key_states' = _load_persisted_states(store, pool)
    /\ lock' = NoThread
    /\ th' = [t \in Threads |-> IdleThread]
    /\ lastWrite' = "none"
    /\ selTimes' = [h \in AllHashes |-> <<>>]
    /\ apiFailedAt' = [k \in AllKeys |-> NoTime]
    /\ failsSince' = [k \in AllKeys |-> 0]
    /\ events < MaxEvents
    /\ events' = events + 1
    /\ UNCHANGED <<cli, store, clock>>

\* APIKeyManager.__init__ raises at line 18: the new process has no manager
ConstructionFails(keys) ==
    /\ ctor' = <<"raise", "ValueError">>
    /\ api_keys' = keys
    /\ key_states' = EmptyDict
    /\ lock' = NoThread
    /\ th' = [t \in Threads |-> IdleThread]
    /\ lastWrite' = "none"
    /\ selTimes' = [h \in AllHashes |-> <<>>]
    /\ apiFailedAt' = [k \in AllKeys |-> NoTime]
    /\ failsSince' = [k \in AllKeys |-> 0]
    /\ events < MaxEvents
    /\ events' = events + 1
    /\ UNCHANGED <<cli, store, clock>>

\* APIKeyManager(api_keys=api_keys_arg) with API_KEYS = env, lines 12-21
Construct(api_keys_arg, env) ==
    \E keys \in ResolveKeys(api_keys_arg, env) :
        IF NoKeys(keys) THEN ConstructionFails(keys) ELSE Restart(keys)

----------------------------------------------------------------------------
(* The specification *)

Next ==
    \/ \E t \in Threads : ChooseKey(t)
    \/ \E t \in Threads : NoKeyAvailable(t)
    \/ \E t \in Threads : StampChosen(t)
    \/ \E t \in Threads : PersistAndReturn(t)
    \/ \E t \in Threads, key \in AllKeys,
          error_message \in Optional(ErrorMessages),
          error_code \in Optional(ErrorCodes) :
            ReportFailure(t, key, error_message, error_code)
    \/ \E t \in Threads, key \in AllKeys : ClearCooldown(t, key)
    \/ \E t \in Threads : ClearMessage(t)
    \/ \E t \in Threads : ClearCode(t)
    \/ \E t \in Threads, key \in AllKeys : ClearNothing(t, key)
    \/ \E t \in Threads : FinishFailure(t)
    \/ \E t \in Threads : FinishSuccess(t)
    \/ \E t \in Threads, max_retries \in RetryChoices : StartCaller(t, max_retries)
    \/ \E t \in Threads : LoopExit(t)
    \/ \E t \in Threads : WakeUp(t)
    \/ \E t \in Threads : ExtractFails(t)
    \/ \E t \in Threads : ModelFails(t)
    \/ \E t \in Threads, kind \in Kinds, exc \in ApiErrors :
            GenerateRaises(t, kind, exc)
    \/ \E t \in Threads, text_ok \in BOOLEAN : ReadText(t, text_ok)
    \/ \E t \in Threads : CallerReturn(t)
    \/ \E d \in ClockSteps : Advance(d)
    \/ \E api_keys_arg \in KeyListArgs :
          \E env \in EnvFor(api_keys_arg) : Construct(api_keys_arg, env)

Spec == Init /\ [][Next]_vars

----------------------------------------------------------------------------
(* Properties *)

\* the cooldown_until recorded for a key, 0 when none is
CooldownUntil(key) == DictGet(get_key_status(key), "cooldown_until", 0)

\* C1: get_available_key never returns a key whose recorded cooldown_until is
\* greater than the time read by that call
C1_NeverReturnsKeyInCooldown ==
    \A t \in Threads :
        th[t].pc = "gak_stamp" => CooldownUntil(th[t].key[1]) <= th[t].now

\* a call has chosen a key while another key of the pool is in cooldown
C1_Witness ==
    \E t \in Threads :
        /\ th[t].pc = "gak_stamp"
        /\ \E k \in SeqToSet(api_keys) : CooldownUntil(k) > clock

\* C2: any two get_available_key calls on one manager that return the same
\* key have selection times at least 6 seconds apart, whatever the threads
C2_SameKeySixSecondsApart ==
    \A h \in AllHashes :
        \A i, j \in 1..Len(selTimes[h]) :
            i < j => selTimes[h][j] - selTimes[h][i] >= ReuseInterval

\* one manager has returned the same key twice
C2_Witness == \E h \in AllHashes : Len(selTimes[h]) >= 2

\* C3: once the API call a caller made with key k has failed, no
\* get_available_key returns k until the 6-hour cooldown of that failure has
\* expired or a success for k has been reported
C3_FailedKeyInCooldown ==
    \A t \in Threads :
        th[t].pc = "gak_stamp" =>
            LET k == th[t].key[1]
            IN  ~(/\ apiFailedAt[k] # NoTime
                  /\ th[t].now < apiFailedAt[k] + ErrorCooldown)

\* C4: when an attempt of a caller that was handed a key ends, exactly one
\* update_key_status call for that key has completed in the attempt
C4_ExactlyOneReport ==
    \A t \in Threads :
        (/\ th[t].frame = "caller"
         /\ th[t].pc \in {"c_loop", "c_exit"}
         /\ th[t].key # None) => th[t].reports = 1

\* C5: update_key_status(k, success=False) without an error message or
\* without an error code raises ValueError and leaves key_states and the
\* state file as they were
C5_ArgumentErrorChangesNothing ==
    [][\A t \in Threads, key \in AllKeys,
          error_message \in Optional(ErrorMessages),
          error_code \in Optional(ErrorCodes) :
            (/\ ReportFailure(t, key, error_message, error_code)
             /\ (error_message = None \/ error_code = None)) =>
                /\ th'[t].ret = <<"raise", "ValueError">>
                /\ key_states' = key_states
                /\ store' = store]_vars

\* a direct call has raised ValueError on a manager that holds key state
C5_Witness ==
    \E t \in Threads :
        /\ th[t].pc = "idle"
        /\ th[t].ret = <<"raise", "ValueError">>
        /\ key_states # EmptyDict
        /\ store # NoFile

\* the fields of a key state that a failure report writes
FailureFields == {"cooldown_until", "error_message", "error_code"}

\* the failure count that the state of a key shows: 0 for a key that has no
\* state (a state is made at the first selection or failure report), the
\* consecutiveFailures entry of a state that has one, None for a state
\* without that entry
ShownFailures(states, key) ==
    IF _hash_key(key) \notin DOMAIN states THEN Some(0)
    ELSE IF "consecutiveFailures" \in DOMAIN StatusIn(states, key)
         THEN Some(StatusIn(states, key)["consecutiveFailures"])
         ELSE None

\* C6: when update_key_status(k, success=True) returns, get_key_status(k)
\* shows consecutiveFailures equal to 0, no cooldown and no failure detail
C6_SuccessShowsZeroFailures ==
    [][\A t \in Threads :
          FinishSuccess(t) =>
              /\ ShownFailures(key_states', th[t].key[1]) = Some(0)
              /\ DOMAIN StatusIn(key_states', th[t].key[1]) \cap FailureFields
                     = {}]_vars

\* C7: each update_key_status(k, success=False, ...) leaves a cooldown_until
\* equal to the time of that report plus 6 hours, never less than the
\* cooldown_until it found, however many failures came before
C7_FixedPenaltyNonDecreasing ==
    [][/\ \A t \in Threads, key \in AllKeys,
             error_message \in ErrorMessages, error_code \in ErrorCodes :
               ReportFailure(t, key, Some(error_message), Some(error_code)) =>
                   /\ CooldownUntil(key)' = clock + ErrorCooldown
                   /\ CooldownUntil(key)' >= CooldownUntil(key)
       /\ \A t \in Threads :
               FinishFailure(t) =>
                   DictGet(StatusIn(key_states', th[t].key[1]),
                           "cooldown_until", 0) =
                        th[t].now + ErrorCooldown]_vars

\* a key has had two failure reports in a row, the second at a later time
C7_Witness ==
    \E k \in AllKeys :
        /\ failsSince[k] >= 2
        /\ CooldownUntil(k) > Epoch + ErrorCooldown

\* C8: each failure report for k makes the consecutiveFailures that k's state
\* shows one more than it showed before the report, so that the count equals
\* the number of failure reports since the last success report
C8_FailureReportIncrementsCount ==
    [][\A t \in Threads, key \in AllKeys,
          error_message \in ErrorMessages, error_code \in ErrorCodes :
            ReportFailure(t, key, Some(error_message), Some(error_code)) =>
                /\ ShownFailures(key_states', key) # None
                /\ ShownFailures(key_states, key) # None =>
                       ShownFailures(key_states', key)[1] =
                           ShownFailures(key_states, key)[1] + 1]_vars

\* the credentials of a list, as a set
SameCredentials(pool, keys) == SeqToSet(pool) = SeqToSet(keys)

\* C9: a manager constructed over the same file with the same credentials,
\* after operations whose last write succeeded, gives every key the
\* get_key_status of the old manager; whatever the credentials, it loads no
\* entry of a credential it does not have
C9_RoundTrip ==
    [][\A pool \in Pools :
          Restart(pool) =>
              /\ DOMAIN key_states' \subseteq CurrentHashes(pool)
              /\ (/\ lock = NoThread
                  /\ lastWrite = "ok"
                  /\ SameCredentials(pool, api_keys)) =>
                     \A k \in SeqToSet(pool) :
                         get_key_status(k)' = get_key_status(k)]_vars

\* a new manager has loaded a cooldown with its error details from the file
C9_Witness ==
    /\ lastWrite = "none"
    /\ \E k \in SeqToSet(api_keys) :
           FailureFields \subseteq DOMAIN get_key_status(k)

\* json.load of the state file as it is, {} when there is none to read
StoredMapping ==
    IF store \in {NoFile, CorruptFile, ArrayFile} THEN EmptyDict
    ELSE JsonLoad(store[2])

\* C10 as stated: whenever no call is inside the lock and no write has
\* failed, the stored mapping equals the in-memory key_states
C10_StoreEqualsMemory ==
    (lock = NoThread /\ lastWrite # "failed") => StoredMapping = key_states

\* C10, amended: whenever no call is inside the lock and no write has
\* failed, the stored mapping restricted to the current credentials equals
\* key_states, so a manager constructed now with the same credentials has
\* the same cooldown_until for every key
C10_StoreRestrictedEqualsMemory ==
    (lock = NoThread /\ lastWrite # "failed") =>
        /\ DictFilter(StoredMapping, CurrentHashes(api_keys)) =
               DictFilter(key_states, CurrentHashes(api_keys))
        /\ \A k \in SeqToSet(api_keys) :
               DictGet(DictGet(_load_persisted_states(store, api_keys),
                               _hash_key(k), EmptyDict), "cooldown_until", 0)
               = CooldownUntil(k)

\* a failure report has returned and its cooldown is in the file
C10_Witness ==
    /\ lock = NoThread
    /\ lastWrite = "ok"
    /\ \E k \in SeqToSet(api_keys) :
        /\ failsSince[k] > 0
        /\ CooldownUntil(k) > clock

\* the thread is in no exception
NoException(rec) == rec.ret[1] # "raise"

\* the state file is unreadable (no JSON) or malformed (JSON, but no object
\* whose values are all state objects)
Malformed(file) ==
    \/ file = CorruptFile
    \/ file = ArrayFile
    \/ /\ file[1] = "json"
       /\ \E i \in 1..Len(file[2]) : file[2][i][2][1] # "object"

\* C11: a failed write of the state file does not reach the caller:
\* get_available_key and update_key_status then still return normally with
\* key_states updated; and a manager constructed over a missing, unreadable
\* or malformed state file starts with empty key_states
C11_PersistenceFailureContained ==
    [][/\ \A t \in Threads :
            (PersistAndReturn(t) /\ lastWrite' = "failed") =>
                /\ NoException(th'[t])
                /\ th'[t].pc \in {"idle", "c_api"}
                /\ StatusIn(key_states', th[t].key[1])["last_used"] = th[t].now
       /\ \A t \in Threads :
            (FinishFailure(t) /\ lastWrite' = "failed") =>
                /\ NoException(th'[t])
                /\ th'[t].pc \in {"idle", "c_loop"}
                /\ StatusIn(key_states', th[t].key[1])["cooldown_until"]
                       = th[t].now + ErrorCooldown
       /\ \A t \in Threads :
            (FinishSuccess(t) /\ lastWrite' = "failed") =>
                /\ NoException(th'[t])
                /\ th'[t].pc \in {"idle", "c_text"}
                /\ DOMAIN StatusIn(key_states', th[t].key[1])
                       \cap FailureFields = {}
       /\ \A pool \in Pools :
            (Restart(pool) /\ (store = NoFile \/ Malformed(store))) =>
                /\ key_states' = EmptyDict
                /\ api_keys' = pool]_vars

\* the construction is given zero credentials: an empty list, or no list and
\* an unset or empty API_KEYS
ZeroCredentials(api_keys_arg, env) ==
    \/ api_keys_arg = Some(<<>>)
    \/ api_keys_arg = None /\ (env = None \/ env = Some(<<"">>))

\* C12: constructing the manager with zero credentials raises ValueError,
\* and no operation runs on what was constructed
C12_ZeroCredentialsRaise ==
    [][/\ \A api_keys_arg \in KeyListArgs, env \in EnvValues :
            (/\ Construct(api_keys_arg, env)
             /\ ZeroCredentials(api_keys_arg, env)) =>
                ctor' = <<"raise", "ValueError">>
       /\ (ctor # Constructed /\ ctor' = ctor) =>
            (th' = th /\ key_states' = key_states /\ store' = store)]_vars

\* a construction has raised ValueError
C12_Witness == ctor = <<"raise", "ValueError">>

\* the last_used recorded for a key, 0 when none is
LastUsed(key) == DictGet(get_key_status(key), "last_used", 0)

\* the pool is [k, other] in either order, k is in cooldown and other is not
OneOfTwoInCooldown(k, other) ==
    /\ k # other
    /\ SeqToSet(api_keys) = {k, other}
    /\ CooldownUntil(k) > clock
    /\ CooldownUntil(other) <= clock

\* C13 as stated: with pool [k1, k2], k1 in cooldown and k2 not, every
\* get_available_key call made before k1's cooldown expires returns k2
C13_EveryCallReturnsOther ==
    [][\A t \in Threads : \A k, other \in AllKeys :
            OneOfTwoInCooldown(k, other) =>
                /\ ~NoKeyAvailable(t)
                /\ ChooseKey(t) => th'[t].key = Some(other)]_vars

\* C13: with pool [k1, k2], k1 in cooldown and k2 not, a get_available_key
\* call made before k1's cooldown expires returns k2 when k2 has not been
\* selected within the last 6 seconds and None when it has; it never returns k1
C13_ReturnsOtherOrNone ==
    [][\A t \in Threads : \A k, other \in AllKeys :
            OneOfTwoInCooldown(k, other) =>
                /\ ChooseKey(t) =>
                        /\ th'[t].key = Some(other)
                        /\ LastUsed(other) + ReuseInterval <= clock
                /\ NoKeyAvailable(t) =>
                        LastUsed(other) + ReuseInterval > clock]_vars

\* k2 has been returned by a call made after k1 was put in cooldown
C13_Witness ==
    \E k, other \in AllKeys :
        /\ OneOfTwoInCooldown(k, other)
        /\ lock = NoThread
        /\ LastUsed(other) >= CooldownUntil(k) - ErrorCooldown
        /\ selTimes[_hash_key(other)] # <<>>

----------------------------------------------------------------------------
(* A manager constructed over the file an earlier process left *)

\* when the earlier process selected k1 and when it reported k1's failure:
\* a failure whose cooldown ends now, and one whose cooldown has just begun
PriorFailureTimes == {Epoch - ErrorCooldown, Epoch - ReuseInterval \div 2}

\* the file of a process that selected `key` at `failed - ReuseInterval`,
\* reported its failure at `failed`, and wrote its states
PriorFile(key, failed) ==
    _persist_states(
        NoFile,
        SetCooldown(StampLastUsed(EmptyDict, key, failed - ReuseInterval),
                    key, failed, Some("quota"), Some(429)),
        "ok")

\* the manager is constructed with API_KEYS='k1, k1 ,' over that file
ScenarioInit ==
    /\ cli = NoConsole
    /\ ctor = Constructed
    /\ api_keys \in _load_keys(Some(<<"k1", " k1 ", "">>))
    /\ store \in {PriorFile("k1", failed) : failed \in PriorFailureTimes}
    /\ key_states = _load_persisted_states(store, api_keys)
    /\ lock = NoThread
    /\ clock = Epoch
    /\ th = [t \in Threads |-> IdleThread]
    /\ lastWrite = "none"
    /\ selTimes = [h \in AllHashes |-> <<>>]
    /\ apiFailedAt = [k \in AllKeys |-> NoTime]
    /\ failsSince = [k \in AllKeys |-> 0]
    /\ events = 0

ScenarioSpec == ScenarioInit /\ [][Next]_vars

\* the pool is [k] and the cooldown a failure report gave k has expired
SoleKeyCooldownExpired(k) ==
    /\ api_keys = <<k>>
    /\ "cooldown_until" \in DOMAIN get_key_status(k)
    /\ CooldownUntil(k) <= clock

\* C14 as stated: with pool [k1] and k1's cooldown expired, any
\* get_available_key call returns k1; nothing else holds the key back
C14_AnyCallAfterExpiryReturnsKey ==
    [][\A t \in Threads : \A k \in AllKeys :
            SoleKeyCooldownExpired(k) =>
                /\ ~NoKeyAvailable(t)
                /\ ChooseKey(t) => th'[t].key = Some(k)]_vars

\* C14: with pool [k1] and k1 put in cooldown until T by a failure report,
\* the first get_available_key call after T returns k1, and a later call
\* returns k1 when k1 has not been selected within the last 6 seconds and
\* None when it has
C14_FirstCallAfterExpiryReturnsKey ==
    [][\A t \in Threads : \A k \in AllKeys :
            SoleKeyCooldownExpired(k) =>
                /\ ChooseKey(t) =>
                        /\ th'[t].key = Some(k)
                        /\ LastUsed(k) + ReuseInterval <= clock
                /\ NoKeyAvailable(t) =>
                        /\ LastUsed(k) >= CooldownUntil(k)
                        /\ LastUsed(k) + ReuseInterval > clock]_vars

\* the first call after the cooldown expired has chosen k1
C14_Witness ==
    \E t \in Threads : \E k \in AllKeys :
        /\ SoleKeyCooldownExpired(k)
        /\ th[t].pc = "gak_stamp"
        /\ th[t].key = Some(k)
        /\ LastUsed(k) < CooldownUntil(k)

\* the credential is available at the time `now`: its cooldown has ended and
\* its last selection is at least 6 seconds old
UsableAt(k, now) ==
    /\ CooldownUntil(k) <= now
    /\ LastUsed(k) + ReuseInterval <= now

\* the credential is available at this moment
Usable(k) == UsableAt(k, clock)

\* C15: get_available_key returns a key exactly when some credential of the
\* pool is available at the time of the call, and then an available one; it
\* returns None exactly when none is, and never when no key of the pool has
\* a state
C15_KeyIffSomeAvailable ==
    [][\A t \in Threads :
            /\ ChooseKey(t) =>
                    /\ \E k \in SeqToSet(api_keys) : Usable(k)
                    /\ \E k \in SeqToSet(api_keys) :
                            Usable(k) /\ th'[t].key = Some(k)
            /\ NoKeyAvailable(t) =>
                    /\ \A k \in SeqToSet(api_keys) : ~Usable(k)
                    /\ \E k \in SeqToSet(api_keys) :
                            get_key_status(k) # EmptyDict
            /\ (PersistAndReturn(t) /\ th[t].frame = "caller") =>
                    th'[t].key = th[t].key /\ th'[t].pc = "c_api"]_vars

\* a caller's get_available_key has returned None: no credential is available
C15_Witness ==
    \E t \in Threads :
        /\ th[t].pc = "c_sleep"
        /\ th[t].key = None
        /\ \A k \in SeqToSet(api_keys) : ~Usable(k)

\* C16: a caller's run ends on an exception, to return None, only in its
\* last attempt: an attempt whose API call failed is followed by a further
\* attempt as long as attempts remain
C16_RetriesUntilMaxRetries ==
    \A t \in Threads :
        (/\ th[t].frame = "caller"
         /\ th[t].pc = "c_exit"
         /\ th[t].ret[1] = "raise") =>
            th[t].attempt >= th[t].max_retries

\* C19: the active credential list of a constructed manager never holds the
\* same credential twice
C19_NoDuplicateCredentials ==
    ctor = Constructed =>
        \A i, j \in 1..Len(api_keys) : i < j => api_keys[i] # api_keys[j]

----------------------------------------------------------------------------
(* The console: key_manager_cli.main *)

\* main(), line 74: the manager is constructed over its stored credentials,
\* some of which have failed before; the loop is at its first prompt
CliInit ==
    /\ \E failed \in SUBSET SeqToSet(InitialPool) :
       \E states \in [failed -> BlockedStates] :
            cli = [pc |-> "menu", api_keys |-> InitialPool,
                   key_states |-> states, saved_keys |-> InitialPool,
                   saved_states |-> states, printed |-> <<>>]
    /\ ctor = Constructed
    /\ api_keys = InitialPool
    /\ store = NoFile
    /\ key_states = _load_persisted_states(NoFile, InitialPool)
    /\ lock = NoThread
    /\ clock = Epoch
    /\ th = [t \in Threads |-> IdleThread]
    /\ lastWrite = "none"
    /\ selTimes = [h \in AllHashes |-> <<>>]
    /\ apiFailedAt = [k \in AllKeys |-> NoTime]
    /\ failsSince = [k \in AllKeys |-> 0]
    /\ events = 0

\* the menu loop of main(), lines 76-91, its prompts, and the time that
\* passes while it waits at one
CliNext ==
    \/ \E typed \in KeyInputs, outcome \in SaveOutcomes : AddKey(typed, outcome)
    \/ ListKeys
    \/ RemoveKey
    \/ \E typed \in ChoiceInputs, outcome \in SaveOutcomes :
            RemoveChosen(typed, outcome)
    \/ ViewStatuses
    \/ Exit
    \/ InvalidChoice
    \/ \E d \in ClockSteps : Advance(d)

CliSpec == CliInit /\ [][CliNext]_vars

\* remove_key has removed credential k: its line is the last one printed
Removed(manager, k) ==
    /\ manager.printed # <<>>
    /\ manager.printed[Len(manager.printed)] = <<"Removed key", k>>

C18_FailedSaveRollsBack ==
    [][/\ \A typed \in KeyInputs :
            AddKey(typed, "failed") => cli'.api_keys = cli.api_keys
       /\ \A typed \in ChoiceInputs :
            RemoveChosen(typed, "failed") => cli'.api_keys = cli.api_keys
       /\ cli'.api_keys = cli'.saved_keys]_vars

\* a remove_key on a list of two or more credentials has failed to save
C18_Witness ==
    /\ cli.printed # <<>>
    /\ cli.printed[Len(cli.printed)] = <<"Failed to save changes!">>
    /\ Len(cli.api_keys) >= 2

\* C20: update_key_status calls for one key are serialized by the lock: while
\* a thread holds the lock no other thread's step changes key_states, so each
\* report acts on the state its predecessor left; and the state a report
\* leaves when it releases the lock is its own: a failure report leaves its
\* cooldown_until, a success report leaves none
C20_ReportsSerialized ==
    [][\A t \in Threads :
            /\ (lock = t /\ th'[t] = th[t]) => key_states' = key_states
            /\ FinishFailure(t) =>
                    /\ lock = t
                    /\ "cooldown_until" \in
                            DOMAIN StatusIn(key_states', th[t].key[1])
                    /\ StatusIn(key_states', th[t].key[1]).cooldown_until =
                            th[t].now + ErrorCooldown
            /\ FinishSuccess(t) =>
                    /\ lock = t
                    /\ FailureFields \cap
                            DOMAIN StatusIn(key_states', th[t].key[1]) = {}]_vars

\* a thread holds the lock in a failure report for a key while another
\* thread is about to report on the same key
C20_Witness ==
    \E t, u \in Threads : \E k \in AllKeys :
        /\ t # u
        /\ lock = t
        /\ th[t].pc = "uks_persist"
        /\ ~th[t].success
        /\ th[t].key = Some(k)
        /\ th[u].pc = "c_api"
        /\ th[u].key = Some(k)

\* C22: the key get_available_key returns is a credential of the active list
\* that is available at the time of the call, and every available credential
\* of the list is a possible result of the call
C22_ChoosesAmongAllAvailable ==
    \A t \in Threads :
        /\ th[t].pc = "gak_stamp" =>
                /\ th[t].key[1] \in SeqToSet(api_keys)
                /\ UsableAt(th[t].key[1], th[t].now)
        /\ \A k \in SeqToSet(api_keys) :
                (AtGetAvailableKey(t) /\ LockFree /\ Usable(k)) =>
                    ENABLED (ChooseKey(t) /\ th'[t].key = Some(k))

\* a call has chosen the second credential of the list while the first was
\* available as well
C22_Witness ==
    \E t \in Threads :
        /\ th[t].pc = "gak_stamp"
        /\ Len(api_keys) = 2
        /\ api_keys[1] # api_keys[2]
        /\ th[t].key = Some(api_keys[2])
        /\ Usable(api_keys[1])

\* thread t takes a step of update_key_status for `key`: a direct call, a
\* caller's success report, or the report in a caller's except clause
UpdateStep(t, key) ==
    \/ \E error_message \in Optional(ErrorMessages),
          error_code \in Optional(ErrorCodes) :
            ReportFailure(t, key, error_message, error_code)
    \/ ClearCooldown(t, key)
    \/ ClearNothing(t, key)
    \/ /\ th[t].key = Some(key)
       /\ \/ ClearMessage(t)
          \/ ClearCode(t)
          \/ FinishFailure(t)
          \/ FinishSuccess(t)
          \/ \E kind \in Kinds, exc \in ApiErrors :
                /\ ~(kind = "pdf" /\ exc = "ResourceExhausted")
                /\ GenerateRaises(t, kind, exc)
          \/ ReadText(t, FALSE)

\* the last_used entry of a key: None when the key has none
LastUsedEntry(states, key) ==
    IF "last_used" \in DOMAIN StatusIn(states, key)
    THEN Some(StatusIn(states, key).last_used)
    ELSE None

\* C23: no step of update_key_status, for a success or for a failure,
\* changes the last_used of any key or anything in the state of another key
C23_ReportKeepsLastUsed ==
    [][\A t \in Threads, key \in AllKeys :
            UpdateStep(t, key) =>
                \A k \in AllKeys :
                    /\ LastUsedEntry(key_states', k) =
                            LastUsedEntry(key_states, k)
                    /\ k # key =>
                            /\ StatusIn(key_states', k) = StatusIn(key_states, k)
                            /\ _hash_key(k) \in DOMAIN key_states' <=>
                               _hash_key(k) \in DOMAIN key_states]_vars

\* a failure report has been made for a key that has a last_used stamp,
\* while another key has a state
C23_Witness ==
    \E t \in Threads, k \in AllKeys :
        /\ th[t].pc = "uks_persist"
        /\ ~th[t].success
        /\ th[t].key = Some(k)
        /\ LastUsedEntry(key_states, k) # None
        /\ \E other \in AllKeys \ {k} : get_key_status(other) # EmptyDict

\* the state of the key holds both cooldown_until and last_used
HasBoth(k) == {"cooldown_until", "last_used"} \subseteq DOMAIN get_key_status(k)

\* C24 as stated: a key whose state holds both cooldown_until and last_used
\* has cooldown_until >= last_used + 6 hours
C24_CooldownSixHoursAfterLastUsed ==
    \A k \in AllKeys :
        HasBoth(k) => CooldownUntil(k) >= LastUsed(k) + ErrorCooldown

\* C24: a key whose state holds last_used and a cooldown_until that has not
\* expired has cooldown_until >= last_used + 6 hours, so while a failure
\* cooldown lasts the key is held back by it alone; a cooldown_until that
\* has expired stays in the state and may be older than last_used
C24_ActiveCooldownSixHoursAfterLastUsed ==
    \A k \in AllKeys :
        (HasBoth(k) /\ CooldownUntil(k) > clock) =>
            /\ CooldownUntil(k) >= LastUsed(k) + ErrorCooldown
            /\ LastUsed(k) + ReuseInterval <= CooldownUntil(k)

\* a key that was selected is in a cooldown that has not expired
C24_Witness ==
    \E k \in AllKeys :
        /\ HasBoth(k)
        /\ CooldownUntil(k) > clock
        /\ lock = NoThread

\* C25: every entry of key_states belongs to a credential of the active list
\* (an entry is keyed by the fingerprint, so a credential has at most one)
C25_EntriesBelongToActiveSet ==
    ctor = Constructed => DOMAIN key_states \subseteq CurrentHashes(api_keys)

----------------------------------------------------------------------------
(* What the records and console lines show of a credential *)

\* a credential is a string: a sequence of characters, of any length from 1
MaxKeyLen == 9

Alphabet == {"a", "b"}

Credentials == UNION {[1..n -> Alphabet] : n \in 1..MaxKeyLen}

\* key[:n]
SliceTo(key, n) == SubSeq(key, 1, IF n < Len(key) THEN n ELSE Len(key))

\* key[-n:]
SliceLast(key, n) ==
    SubSeq(key, (IF n < Len(key) THEN Len(key) - n ELSE 0) + 1, Len(key))

\* the parts of an f-string: fixed text, characters of the credential, or
\* the hexdigest of the credential, from which no character can be read
Text(string) == <<"text", string>>
Chars(characters) == <<"chars", characters>>
Digest(key) == <<"sha256", "hexdigest">>

\* key_manager_cli.py:28
added_line(key) ==
    <<Text("Key added successfully! (Partial: "), Chars(SliceTo(key, 4)),
      Text("..."), Chars(SliceLast(key, 4)), Text(")")>>

\* key_manager_cli.py:42
listed_line(key) ==
    <<Text("1. "), Chars(SliceTo(key, 4)), Text("..."),
      Chars(SliceLast(key, 4)), Text(" (Active)")>>

\* key_manager_cli.py:54
removed_line(key) == <<Text("Removed key: ..."), Chars(SliceLast(key, 4))>>

\* key_manager_cli.py:67
status_line(key) ==
    <<Text("Key "), Chars(SliceTo(key, 4)), Text("..."),
      Chars(SliceLast(key, 4)), Text(":")>>

\* question_answering.py:128, pdf_summerizer.py:144
model_created_line(key) ==
    <<Text("Model created for ..."), Chars(SliceLast(key, 4))>>

\* api_key_manager.py:95
selected_line(key) ==
    <<Text("Selected key "), Digest(key), Text(" (last used at now)")>>

\* the line shows the credential in full
ShowsInFull(line, key) == \E i \in 1..Len(line) : line[i] = Chars(key)

\* the console and the loggers, each writing its line about a credential
\* of the manager's list: the key just added (line 28), the first key
\* listed (line 42), a key of the status overview (line 67), the key a
\* model was created for, the key selected
PrintAdded ==
    /\ api_keys # <<>>
    /\ cli' = [cli EXCEPT !.printed =
                    <<added_line(api_keys[Len(api_keys)])>>]
    /\ UNCHANGED events
    /\ ManagerUnchanged

PrintListed ==
    /\ api_keys # <<>>
    /\ cli' = [cli EXCEPT !.printed = <<listed_line(api_keys[1])>>]
    /\ UNCHANGED events
    /\ ManagerUnchanged

\* remove_key, lines 52-54: the chosen credential is popped from the list
\* and, the save answered with True, the line about it is printed; the list
\* no longer holds the credential the line is about
PrintRemoved ==
    /\ \E choice \in 1..Len(api_keys) :
         LET removed_key == api_keys[choice]
         IN  /\ api_keys' = ListPop(api_keys, choice - 1)
             /\ cli' = [cli EXCEPT !.printed = <<removed_line(removed_key)>>]
    /\ UNCHANGED <<ctor, key_states, store, lock, clock, th, lastWrite,
                   selTimes, apiFailedAt, failsSince, events>>

PrintStatus ==
    /\ \E i \in 1..Len(api_keys) :
         cli' = [cli EXCEPT !.printed = <<status_line(api_keys[i])>>]
    /\ UNCHANGED events
    /\ ManagerUnchanged

LogModelCreated ==
    /\ \E i \in 1..Len(api_keys) :
         cli' = [cli EXCEPT !.printed = <<model_created_line(api_keys[i])>>]
    /\ UNCHANGED events
    /\ ManagerUnchanged

LogSelected ==
    /\ \E i \in 1..Len(api_keys) :
         cli' = [cli EXCEPT !.printed = <<selected_line(api_keys[i])>>]
    /\ UNCHANGED events
    /\ ManagerUnchanged

\* a manager with one credential, nothing shown yet
DisplayInit ==
    /\ cli = NoConsole
    /\ ctor = Constructed
    /\ api_keys \in {<<key>> : key \in Credentials}
    /\ store = NoFile
    /\ key_states = EmptyDict
    /\ lock = NoThread
    /\ clock = Epoch
    /\ th = [t \in Threads |-> IdleThread]
    /\ lastWrite = "none"
    /\ selTimes = [h \in AllHashes |-> <<>>]
    /\ apiFailedAt = [k \in AllKeys |-> NoTime]
    /\ failsSince = [k \in AllKeys |-> 0]
    /\ events = 0

DisplayNext ==
    \/ PrintAdded
    \/ PrintListed
    \/ PrintRemoved
    \/ PrintStatus
    \/ LogModelCreated
    \/ LogSelected

DisplaySpec == DisplayInit /\ [][DisplayNext]_vars

\* C21: no record and no console line shows in full a credential that the
\* manager holds, or held until the step that wrote the line, for a
\* credential of any length
C21_NoLineShowsCredentialInFull ==
    [][\A i \in 1..Len(cli'.printed) :
       \A key \in SeqToSet(api_keys) \cup SeqToSet(api_keys') :
            ~ShowsInFull(cli'.printed[i], key)]_vars

----------------------------------------------------------------------------
(* Readers of the key states beside the other calls *)

\* a direct call get_key_status(key), lines 134-137: no lock is taken; the
\* thread gets a copy of the state the key has at this moment
GetKeyStatus(t, key) ==
    /\ CanStart(t)
    /\ IsDict(StatusIn(key_states, key))
    /\ th' = [th EXCEPT ![t].ret = <<"status", get_key_status(key)>>]
    /\ events' = events + 1
    /\ UNCHANGED <<cli, ctor, api_keys, key_states, store, lock, clock,
                   lastWrite, selTimes, apiFailedAt, failsSince>>

ReaderNext ==
    \/ Next
    \/ \E t \in Threads, key \in AllKeys : GetKeyStatus(t, key)

ReaderSpec == Init /\ [][ReaderNext]_vars

----------------------------------------------------------------------------
(* A manager constructed over a state file that something else wrote *)

\* line 137: the state of the key is no dict and has no .copy
CopyRaises(t, key) ==
    /\ CanStart(t)
    /\ ~IsDict(StatusIn(key_states, key))
    /\ th' = [th EXCEPT ![t] = Raise(th[t], "AttributeError")]
    /\ events' = events + 1
    /\ UNCHANGED <<cli, ctor, api_keys, key_states, store, lock, clock,
                   lastWrite, selTimes, apiFailedAt, failsSince>>

\* APIKeyManager(api_keys=InitialPool) over one of these files
FileInit ==
    /\ cli = NoConsole
    /\ ctor = Constructed
    /\ api_keys = InitialPool
    /\ store \in {ArrayFile, NumberFile("k1")}
    /\ key_states = _load_persisted_states(store, InitialPool)
    /\ lock = NoThread
    /\ clock = Epoch
    /\ th = [t \in Threads |-> IdleThread]
    /\ lastWrite = "none"
    /\ selTimes = [h \in AllHashes |-> <<>>]
    /\ apiFailedAt = [k \in AllKeys |-> NoTime]
    /\ failsSince = [k \in AllKeys |-> 0]
    /\ events = 0

FileNext ==
    \/ Next
    \/ \E t \in Threads : FilterRaises(t)
    \/ \E t \in Threads, key \in AllKeys : PopRaises(t, key)
    \/ \E t \in Threads, key \in AllKeys,
          error_message \in ErrorMessages, error_code \in ErrorCodes :
            MergeRaises(t, key, Some(error_message), Some(error_code))
    \/ \E t \in Threads, key \in AllKeys : GetKeyStatus(t, key)
    \/ \E t \in Threads, key \in AllKeys : CopyRaises(t, key)

FileSpec == FileInit /\ [][FileNext]_vars

\* a state of a key as a success report leaves it between its pops:
\* cooldown_until is gone while an error detail is still there
PartlyCleared(status) ==
    /\ "cooldown_until" \notin DOMAIN status
    /\ {"error_message", "error_code"} \cap DOMAIN status # {}

\* C26: get_key_status returns the state the key had before a concurrent
\* update_key_status or the state it has after it, never a partly cleared one
C26_SnapshotNeverPartlyCleared ==
    \A t \in Threads :
        th[t].ret[1] = "status" => ~PartlyCleared(th[t].ret[2])

----------------------------------------------------------------------------
(* The calls of the manager under fair scheduling *)

\* get_all_keys, line 141: take the lock
LockForKeys(t) ==
    /\ CanStart(t)
    /\ LockFree
    /\ lock' = t
    /\ th' = [th EXCEPT ![t].pc = "keys_copy", ![t].ret = NoRet]
    /\ events' = events + 1
    /\ UNCHANGED <<cli, ctor, api_keys, key_states, store, clock, lastWrite,
                   selTimes, apiFailedAt, failsSince>>

\* get_all_keys, line 142: return the copy, release the lock
ReturnKeys(t) ==
    /\ th[t].pc = "keys_copy"
    /\ lock' = LockAfterWith(t)
    /\ th' = [th EXCEPT ![t] = [IdleThread EXCEPT !.ret = <<"keys", api_keys>>]]
    /\ UNCHANGED <<cli, ctor, api_keys, key_states, store, clock, lastWrite,
                   selTimes, apiFailedAt, failsSince, events>>

\* the steps a thread takes while it holds the lock
InsideLock(t) ==
    \/ StampChosen(t)
    \/ PersistAndReturn(t)
    \/ ClearMessage(t)
    \/ ClearCode(t)
    \/ FinishFailure(t)
    \/ FinishSuccess(t)
    \/ ReturnKeys(t)

\* threads calling get_available_key, update_key_status and get_all_keys
LiveNext ==
    \/ \E t \in Threads : ChooseKey(t)
    \/ \E t \in Threads : NoKeyAvailable(t)
    \/ \E t \in Threads : StampChosen(t)
    \/ \E t \in Threads : PersistAndReturn(t)
    \/ \E t \in Threads, key \in AllKeys,
          error_message \in Optional(ErrorMessages),
          error_code \in Optional(ErrorCodes) :
            ReportFailure(t, key, error_message, error_code)
    \/ \E t \in Threads, key \in AllKeys : ClearCooldown(t, key)
    \/ \E t \in Threads : ClearMessage(t)
    \/ \E t \in Threads : ClearCode(t)
    \/ \E t \in Threads, key \in AllKeys : ClearNothing(t, key)
    \/ \E t \in Threads : FinishFailure(t)
    \/ \E t \in Threads : FinishSuccess(t)
    \/ \E t \in Threads : LockForKeys(t)
    \/ \E t \in Threads : ReturnKeys(t)

\* a thread that is inside a `with self.lock` block keeps running
LiveSpec ==
    Init /\ [][LiveNext]_vars /\ \A t \in Threads : WF_vars(InsideLock(t))

\* C27: a thread that holds the lock or is inside a call of the manager
\* eventually has returned and does not hold the lock
C27_LockAlwaysReleased ==
    \A t \in Threads :
        (lock = t \/ th[t].pc # "idle") ~> (lock # t /\ th[t].pc = "idle")

\* get_all_keys has returned after another call's write of the file failed
C27_Witness ==
    /\ lock = NoThread
    /\ lastWrite = "failed"
    /\ \E t \in Threads : th[t].ret[1] = "keys"

----------------------------------------------------------------------------
(* The callers under fair scheduling *)

\* a step of thread t other than the start of a caller
ThreadStep(t) ==
    \/ ChooseKey(t)
    \/ NoKeyAvailable(t)
    \/ StampChosen(t)
    \/ PersistAndReturn(t)
    \/ \E key \in AllKeys : ClearCooldown(t, key)
    \/ ClearMessage(t)
    \/ ClearCode(t)
    \/ FinishSuccess(t)
    \/ LoopExit(t)
    \/ WakeUp(t)
    \/ ExtractFails(t)
    \/ ModelFails(t)
    \/ \E kind \in Kinds, exc \in ApiErrors : GenerateRaises(t, kind, exc)
    \/ \E text_ok \in BOOLEAN : ReadText(t, text_ok)
    \/ CallerReturn(t)

\* answer / summarize calls from the threads, and what they run into
CallerNext ==
    \/ \E t \in Threads, max_retries \in RetryChoices : StartCaller(t, max_retries)
    \/ \E t \in Threads : ThreadStep(t)

\* a step of a thread that is inside a call; the first step of a call is not
\* one: nothing obliges a thread to call
RunningStep(t) ==
    /\ th[t].pc # "idle"
    /\ ThreadStep(t)

\* a thread that is inside a call and can take a step keeps running
CallerSpec ==
    Init /\ [][CallerNext]_vars /\ \A t \in Threads : WF_vars(RunningStep(t))

\* the thread is in a caller's attempt and calls get_available_key
CallerSelects(t) ==
    /\ th[t].frame = "caller"
    /\ ChooseKey(t) \/ NoKeyAvailable(t)

\* C28: a caller calls get_available_key only in an attempt numbered at most
\* max_retries, each return to the head of the loop starts the next attempt,
\* and every run eventually returns
C28_CallerTerminates ==
    /\ [][\A t \in Threads :
            /\ CallerSelects(t) => th[t].attempt <= th[t].max_retries
            /\ (th[t].frame = "caller" /\ th[t].pc # "c_loop"
                    /\ th'[t].pc = "c_loop") =>
                    th'[t].attempt = th[t].attempt + 1]_vars
    /\ \A t \in Threads : (th[t].frame = "caller") ~> (th[t].pc = "idle")

\* a caller has used up its attempts without ever getting a key
C28_Witness ==
    \E t \in Threads :
        /\ th[t].pc = "c_exit"
        /\ th[t].ret = <<"result", None>>
        /\ th[t].attempt > th[t].max_retries

====
